---- MODULE Spec2Model ----
(***************************************************************************)
(* A model of thai_language/note.py: the NoteFormatter that turns          *)
(* dictionary entries into flashcard notes.                                *)
(*                                                                         *)
(* Python values are represented as follows.                               *)
(*   str            a tuple of one-character strings, <<"a", "/", "b">>    *)
(*   Optional[T]    None == <<>>, a present value v is Some(v) == <<v>>    *)
(*   dict           definitions: a tuple of definition records in stored   *)
(*                  (insertion) order; _media: a function name -> path     *)
(*   exceptions     the name of the exception class, as a string           *)
(*   generators     frames on an explicit stack, one step per resumption   *)
(***************************************************************************)
EXTENDS Integers, Sequences, FiniteSets, TLC

VARIABLES
    dict,       \* the fetcher's dictionary: entry id -> DictionaryEntry
    media,      \* NoteFormatter._media
    pc,         \* the call in progress: "idle", "word", "cloze", "components", "component"
    stack,      \* the generator frames of the running traversal, innermost last
    visited,    \* the visited set of the running traversal
    out,        \* the WordComponents yielded so far by the running traversal
    rendered,   \* format_component results consumed so far (cloze: lazily, per yield)
    todo,       \* cloze: the (ref, entry) pairs not yet handed to build_component
    locals,     \* the running call's local variables
    result,     \* what the last finished call returned or raised
    hist        \* history of the running traversal (observation only)

vars == <<dict, media, pc, stack, visited, out, rendered, todo, locals, result, hist>>

----------------------------------------------------------------------------
(* Bounds of the model. *)

\* Longest component list of a definition.
MaxComps == 2
\* Longest cloze sentence, counted in inline references.
MaxSentence == 2
\* Longest media locator drawn.
MaxPathLen == 2
\* Most names the media registry is filled with.
MaxMedia == 2
\* Longest entry text, pronunciation and definition text drawn.
MaxTextLen == 2
\* Deepest generator stack the model follows.
MaxDepth == 8

----------------------------------------------------------------------------
(* Optional values. *)

None == <<>>
Some(v) == <<v>>
Get(o) == o[1]

----------------------------------------------------------------------------
(* Strings. *)

RECURSIVE Flatten(_)
Flatten(ss) == IF ss = <<>> THEN <<>> ELSE Head(ss) \o Flatten(Tail(ss))

\* str.replace(old, new) for a one-character old.
StrReplace(s, old, new) ==
    Flatten([i \in 1..Len(s) |-> IF s[i] = old THEN new ELSE <<s[i]>>])

\* html.escape(s) with quote=True.
HtmlEscapeChar(c) ==
    CASE c = "&"  -> <<"&", "a", "m", "p", ";">>
      [] c = "<"  -> <<"&", "l", "t", ";">>
      [] c = ">"  -> <<"&", "g", "t", ";">>
      [] c = "\"" -> <<"&", "q", "u", "o", "t", ";">>
      [] c = "'"  -> <<"&", "#", "x", "2", "7", ";">>
      [] OTHER    -> <<c>>

html_escape(s) == Flatten([i \in 1..Len(s) |-> HtmlEscapeChar(s[i])])

ToUpper(c) == IF c = "a" THEN "A" ELSE IF c = "p" THEN "P" ELSE c
ToLower(c) == IF c = "A" THEN "a" ELSE IF c = "P" THEN "p" ELSE c

\* str.capitalize(): first character upper-cased, the rest lower-cased.
capitalize(s) ==
    [i \in 1..Len(s) |-> IF i = 1 THEN ToUpper(s[i]) ELSE ToLower(s[i])]

RECURSIVE Join(_, _)
\* sep.join(strs)
Join(sep, strs) ==
    IF strs = <<>> THEN <<>>
    ELSE IF Len(strs) = 1 THEN strs[1]
    ELSE strs[1] \o sep \o Join(sep, Tail(strs))

RECURSIVE Repeat(_, _)
\* n * s
Repeat(n, s) == IF n <= 0 THEN <<>> ELSE s \o Repeat(n - 1, s)

BR == <<"<", "b", "r", ">">>
NBSP == <<"&", "n", "b", "s", "p", ";">>

join_nonempty_strings(strs) ==
    Join(BR \o BR, SelectSeq(strs, LAMBDA s : s # <<>>))

----------------------------------------------------------------------------
(* References, definitions, entries. *)

EntryRef(id, definition) == [self |-> FALSE, id |-> id, definition |-> definition]

\* The sentinel component "self": not an EntryRef, and equal to none.
SELF_REFERENCE == [self |-> TRUE, id |-> 0, definition |-> None]

EnglishAlphabet == "The English Alphabet"

Definition(id, text, categories, super_entry, components, classifiers) ==
    [id |-> id, definition |-> text, categories |-> categories,
     super_entry |-> super_entry, components |-> components,
     classifiers |-> classifiers]

DictionaryEntry(id, entry, pron, sound_url, definitions) ==
    [id |-> id, entry |-> entry, pronounciations |-> pron,
     sound_url |-> sound_url, definitions |-> definitions]

\* The keys of entry.definitions.
DefinitionIds(entry) == {entry.definitions[i].id : i \in 1..Len(entry.definitions)}

\* entry.definitions[d], for d a key.
DefinitionOf(entry, d) ==
    LET i == CHOOSE j \in 1..Len(entry.definitions) : entry.definitions[j].id = d
    IN  entry.definitions[i]

\* entry.first_definition: the designated default definition.
first_definition(entry) == entry.definitions[1].id

\* fetcher.get_entry(id) succeeds exactly on the ids of the dictionary.
HasEntry(id) == id \in DOMAIN dict
get_entry(id) == dict[id]

\* fetcher.get_super_entry(entry, d): the merged view of definition d. It
\* carries the merged headword, and definition d alone, no longer merged.
get_super_entry(entry, d) ==
    LET defn == DefinitionOf(entry, d)
    IN  [entry EXCEPT
            !.entry = Get(defn.super_entry),
            !.definitions = <<[defn EXCEPT !.super_entry = None]>>]

----------------------------------------------------------------------------
(* Results of operations that may raise. *)

Ok(v) == [err |-> "", val |-> v]
Raise(e) == [err |-> e, val |-> <<>>]

EntryNotFound == "EntryNotFound"
\* KeyError(definition id), raised by entry.definitions[defn].
KeyErrorDefinition == "KeyError: definition id"
\* KeyError(scheme name), raised by entry.pronounciations[scheme].
KeyErrorScheme == "KeyError: pronunciation scheme"
RuntimeError == "RuntimeError"
AssertionError == "AssertionError"

----------------------------------------------------------------------------
(* NoteFormatter: the media registry and the field formatters. *)

\* The sanitized name of a locator.
MediaNameOf(path) == StrReplace(path, "/", <<"_">>)

\* use_media(path) on registry m: the name returned and the registry after,
\* or the failed assertion (which leaves the registry as it was).
use_mediaOverwriting(m, path) ==
    LET name == MediaNameOf(path)
    IN  [err |-> "", val |-> name, media |-> (name :> path) @@ m]

use_media(m, path) ==
    LET name == MediaNameOf(path)
    IN  IF name \in DOMAIN m
        THEN IF m[name] = path
             THEN [err |-> "", val |-> name, media |-> m]
             ELSE [err |-> AssertionError, val |-> <<>>, media |-> m]
        ELSE [err |-> "", val |-> name, media |-> (name :> path) @@ m]

is_suitable_definition(defn) ==
    IF defn.super_entry # None THEN FALSE
    ELSE IF \E i \in 1..Len(defn.categories) :
                \E j \in 1..Len(defn.categories[i]) :
                    defn.categories[i][j] = EnglishAlphabet
         THEN FALSE
    ELSE TRUE

\* The ids of the suitable definitions, in stored order.
SuitableIds(entry) ==
    LET kept == SelectSeq(entry.definitions, is_suitable_definition)
    IN  [i \in 1..Len(kept) |-> kept[i].id]

suitable_definitions(entry) ==
    IF Len(SuitableIds(entry)) = 0 THEN Raise(RuntimeError)
    ELSE Ok(SuitableIds(entry))

format_pronounciation(entry) ==
    IF entry.pronounciations = None THEN Raise(KeyErrorScheme)
    ELSE Ok(html_escape(StrReplace(Get(entry.pronounciations), " ", <<"-">>)))

format_inline_word(entry) ==
    LET p == format_pronounciation(entry)
    IN  IF p.err # "" THEN p
        ELSE Ok(<<"<", "r", "u", "b", "y", ">">> \o html_escape(entry.entry)
                \o <<"<", "r", "t", ">">> \o p.val
                \o <<"<", "/", "r", "t", ">", "<", "/", "r", "u", "b", "y", ">">>)

\* format_word_field(entry) on registry m.
format_word_fieldAsRuby(m, entry) ==
    LET w == format_inline_word(entry)
    IN  [err |-> w.err, val |-> w.val, media |-> m]

format_word_field(m, entry) ==
    LET p == format_pronounciation(entry)
        word_str == html_escape(entry.entry) \o <<"[">> \o p.val \o <<"]">>
    IN  IF p.err # "" THEN [err |-> p.err, val |-> <<>>, media |-> m]
        ELSE IF entry.sound_url # None
        THEN LET u == use_media(m, Get(entry.sound_url))
             IN  IF u.err # "" THEN u
                 ELSE [err |-> "",
                       val |-> word_str \o <<" ", "[", "s", "o", "u", "n", "d", ":">>
                                        \o u.val \o <<"]">>,
                       media |-> u.media]
        ELSE [err |-> "", val |-> word_str, media |-> m]

\* format_definition(entry, defn), defn an Optional definition id.
format_definition(entry, defn) ==
    LET d == IF defn = None THEN first_definition(entry) ELSE Get(defn)
    IN  IF d \notin DefinitionIds(entry) THEN Raise(KeyErrorDefinition)
        ELSE Ok(html_escape(DefinitionOf(entry, d).definition))

format_definition_field(entry) ==
    LET ids == suitable_definitions(entry)
    IN  IF ids.err # "" THEN ids
        ELSE Ok(Join(BR, [i \in 1..Len(ids.val) |->
                             format_definition(entry, Some(ids.val[i])).val]))

WordComponent(id, definition, entry, level) ==
    [id |-> id, definition |-> definition, entry |-> entry, level |-> level]

format_component(component) ==
    LET w == format_inline_word(component.entry)
        d == format_definition(component.entry, Some(component.definition))
    IN  IF w.err # "" THEN w
        ELSE IF d.err # "" THEN d
        ELSE Ok(Repeat(2 * component.level, NBSP) \o w.val \o <<":", " ">> \o d.val)

\* The narrowed single-definition view built by _ref_to_entry.
NarrowedView(entry, d) ==
    [entry EXCEPT !.definitions = SelectSeq(entry.definitions, LAMBDA x : x.id = d)]

\* _ref_to_entry(ref): the canonical ref and the resolved entry.
ref_to_entryAlwaysNarrowed(ref) ==
    IF ~HasEntry(ref.id) THEN [err |-> EntryNotFound, ref |-> ref, entry |-> <<>>]
    ELSE
      LET entry == get_entry(ref.id)
          new_ref == EntryRef(entry.id, ref.definition)
      IN  IF ref.definition = None
          THEN [err |-> "", ref |-> new_ref, entry |-> entry]
          ELSE IF Get(ref.definition) \notin DefinitionIds(entry)
          THEN [err |-> EntryNotFound, ref |-> ref, entry |-> <<>>]
          ELSE [err |-> "", ref |-> new_ref,
                entry |-> NarrowedView(entry, Get(ref.definition))]

ref_to_entry(ref) ==
    IF ~HasEntry(ref.id) THEN [err |-> EntryNotFound, ref |-> ref, entry |-> <<>>]
    ELSE
      LET entry == get_entry(ref.id)
          new_ref == EntryRef(entry.id, ref.definition)
      IN  IF ref.definition = None
          THEN [err |-> "", ref |-> new_ref, entry |-> entry]
          ELSE IF Get(ref.definition) \notin DefinitionIds(entry)
          THEN [err |-> EntryNotFound, ref |-> ref, entry |-> <<>>]
          ELSE IF DefinitionOf(entry, Get(ref.definition)).super_entry = None
          THEN [err |-> "", ref |-> new_ref,
                entry |-> NarrowedView(entry, Get(ref.definition))]
          ELSE [err |-> "", ref |-> new_ref,
                entry |-> get_super_entry(entry, Get(ref.definition))]

\* The classifier line of format_extra_field.
ClassifierLine(entry) ==
    LET with == SelectSeq(entry.definitions,
                          LAMBDA x : x.classifiers # None /\ Len(Get(x.classifiers)) > 0)
    IN  IF with = <<>> THEN Ok(<<>>)
        ELSE
          LET classifier_ref == Get(with[1].classifiers)[1]
          IN  IF ~HasEntry(classifier_ref.id) THEN Raise(EntryNotFound)
              ELSE
                LET classifier_entry == get_entry(classifier_ref.id)
                    w == format_inline_word(classifier_entry)
                    d == format_definition(classifier_entry, classifier_ref.definition)
                    head == <<"C", "l", "a", "s", "s", "i", "f", "i", "e", "r", ":", " ">>
                IN  IF w.err # "" THEN w
                    ELSE IF d.err # "" THEN d
                    ELSE IF d.val # <<>> /\ d.val[1] = "["
                    THEN Ok(head \o w.val \o <<" ">> \o d.val)
                    ELSE Ok(head \o w.val \o <<" ", "-", " ">> \o d.val)

\* "<br>".join(map(format_component, components)), or the first failure.
RenderComponents(components) ==
    LET rs == [i \in 1..Len(components) |-> format_component(components[i])]
        bad == {i \in 1..Len(rs) : rs[i].err # ""}
    IN  IF bad # {} THEN Raise(rs[CHOOSE i \in bad : \A j \in bad : i <= j].err)
        ELSE Ok(Join(BR, [i \in 1..Len(rs) |-> rs[i].val]))

----------------------------------------------------------------------------
(* Generator frames of the component traversal. *)

\* A suspended or not yet started _build_component(ref, component, visited,
\* level, emit_subcomponents). from_self and owner record where the call came
\* from: whether the component was listed as SELF_REFERENCE, and the position
\* in out of the component whose expansion listed it (0: none).
ComponentFrame(ref, component, level, emit_subcomponents, from_self, owner, pos) ==
    [fn |-> "_build_component", at |-> "start", ref |-> ref, entry |-> component,
     level |-> level, emit_subcomponents |-> emit_subcomponents,
     comps |-> <<>>, i |-> 0, from_self |-> from_self, owner |-> owner, pos |-> pos]

\* A suspended or not yet started _build_components(entry, visited, level).
ComponentsFrame(entry, level, owner) ==
    [fn |-> "_build_components", at |-> "start", ref |-> SELF_REFERENCE,
     entry |-> entry, level |-> level, emit_subcomponents |-> TRUE,
     comps |-> <<>>, i |-> 0, from_self |-> FALSE, owner |-> owner, pos |-> 0]

Top == stack[Len(stack)]
Pop == SubSeq(stack, 1, Len(stack) - 1)
ReplaceTop(f) == [stack EXCEPT ![Len(stack)] = f]

\* The definitions of an entry that may supply its component list: those
\* with a component list that are not merged, in stored order.
ComponentDefinitionsNonEmpty(entry) ==
    SelectSeq(entry.definitions,
              LAMBDA defn : /\ defn.components # None
                            /\ defn.components # Some(<<>>)
                            /\ defn.super_entry = None)

ComponentDefinitions(entry) ==
    SelectSeq(entry.definitions,
              LAMBDA defn : defn.components # None /\ defn.super_entry = None)

NoLocals ==
    [ref |-> SELF_REFERENCE, entry |-> <<>>, word |-> <<>>, definition |-> <<>>,
     inline_ids |-> <<>>, cloze |-> <<>>]

NoResult == [kind |-> "none", error |-> "", value |-> <<>>]
Raised(e) == [kind |-> "error", error |-> e, value |-> <<>>]
Returned(kind, v) == [kind |-> kind, error |-> "", value |-> v]

NoHist == [visited0 |-> {}, meta |-> <<>>, selfs |-> <<>>]

\* An exception leaves the running call: its frames and locals are dropped,
\* the registry stays as the call left it.
Abort(e) ==
    /\ pc' = "idle"
    /\ stack' = <<>>
    /\ todo' = <<>>
    /\ locals' = NoLocals
    /\ result' = Raised(e)
    /\ visited' = {}
    /\ out' = <<>>
    /\ rendered' = <<>>
    /\ hist' = NoHist

\* A call returns v: its locals and its traversal are dropped.
Return(kind, v) ==
    /\ pc' = "idle"
    /\ stack' = <<>>
    /\ todo' = <<>>
    /\ locals' = NoLocals
    /\ result' = Returned(kind, v)
    /\ visited' = {}
    /\ out' = <<>>
    /\ rendered' = <<>>
    /\ hist' = NoHist

Traversing == pc \in {"word", "cloze", "components", "component"}

----------------------------------------------------------------------------
(* The traversal, one generator resumption per step. *)

\* _build_components, from its start to its loop: the component list is
\* chosen, or the generator returns for want of one.
ExpandStart ==
    /\ Traversing /\ stack # <<>>
    /\ Top.fn = "_build_components" /\ Top.at = "start"
    /\ LET components == ComponentDefinitions(Top.entry)
       IN  IF components = <<>>
           THEN stack' = Pop
           ELSE stack' = ReplaceTop([Top EXCEPT !.at = "loop",
                                        !.comps = Get(components[1].components),
                                        !.i = 1])
    /\ UNCHANGED <<dict, media, pc, visited, out, rendered, todo, locals, result, hist>>

\* emit_subcomponents: a component with the enclosing entry's own id is
\* listed without its own components.
EmitSubcomponentsAlways(rel_component, entry) == TRUE

EmitSubcomponents(rel_component, entry) == rel_component.id # entry.id

\* _build_components, one turn of its loop: the next listed component is
\* fetched and handed to _build_component, or the loop ends.
ExpandNext ==
    /\ Traversing /\ stack # <<>>
    /\ Top.fn = "_build_components" /\ Top.at = "loop"
    /\ IF Top.i > Len(Top.comps)
       THEN /\ stack' = Pop
            /\ UNCHANGED <<pc, visited, out, rendered, todo, locals, result, hist>>
       ELSE LET listed == Top.comps[Top.i]
                rel_component == IF listed = SELF_REFERENCE
                                 THEN EntryRef(Top.entry.id, None)
                                 ELSE listed
            IN  IF ~HasEntry(rel_component.id)
                THEN Abort(EntryNotFound)
                ELSE /\ Len(stack) < MaxDepth
                     /\ stack' = Append(
                            ReplaceTop([Top EXCEPT !.i = Top.i + 1]),
                            ComponentFrame(rel_component, get_entry(rel_component.id),
                                           Top.level,
                                           EmitSubcomponents(rel_component, Top.entry),
                                           listed = SELF_REFERENCE,
                                           Top.owner, Top.i))
                     /\ UNCHANGED <<pc, visited, out, rendered, todo, locals,
                                    result, hist>>
    /\ UNCHANGED <<dict, media>>

\* The definition id _build_component works on.
EffectiveDefinition(f) ==
    IF f.ref.definition = None THEN first_definition(f.entry) ELSE Get(f.ref.definition)

\* Whether _build_component returns at once: its pair is visited.
AlreadyVisitedUnresolved(comp_ref) == EntryRef(comp_ref.id, None) \in visited

AlreadyVisited(comp_ref) == comp_ref \in visited

\* _build_component, from its start to its yield: a visited pair makes it
\* return at once; otherwise the WordComponent is yielded. The consumer of a
\* cloze listing formats each component as it arrives.
ComponentStart ==
    /\ Traversing /\ stack # <<>>
    /\ Top.fn = "_build_component" /\ Top.at = "start"
    /\ LET defn == EffectiveDefinition(Top)
           comp_ref == EntryRef(Top.entry.id, Some(defn))
           seen == [encl |-> Top.entry.id, level |-> Top.level, at |-> Len(out)]
           hist1 == IF Top.from_self
                    THEN [hist EXCEPT !.selfs = Append(hist.selfs, seen)]
                    ELSE hist
       IN  IF AlreadyVisited(comp_ref)
           THEN /\ stack' = Pop
                /\ hist' = hist1
                /\ UNCHANGED <<pc, visited, out, rendered, todo, locals, result>>
           ELSE IF defn \notin DefinitionIds(Top.entry)
           THEN Abort(KeyErrorDefinition)
           ELSE
             LET comp_entry == IF DefinitionOf(Top.entry, defn).super_entry # None
                               THEN get_super_entry(Top.entry, defn)
                               ELSE Top.entry
                 component == WordComponent(Top.entry.id, defn, comp_entry, Top.level)
                 line == format_component(component)
                 note == [self |-> IF Top.from_self THEN Len(hist1.selfs) ELSE 0,
                          expand |-> Top.emit_subcomponents,
                          parent |-> Top.owner, pos |-> Top.pos]
             IN  IF pc = "cloze" /\ line.err # ""
                 THEN Abort(line.err)
                 ELSE /\ out' = Append(out, component)
                      /\ hist' = [hist1 EXCEPT !.meta = Append(hist.meta, note)]
                      /\ stack' = ReplaceTop([Top EXCEPT !.at = "yielded",
                                                 !.entry = comp_entry,
                                                 !.ref = comp_ref])
                      /\ rendered' = IF pc = "cloze"
                                     THEN Append(rendered, line.val)
                                     ELSE rendered
                      /\ UNCHANGED <<pc, visited, todo, locals, result>>
    /\ UNCHANGED <<dict, media>>

\* The frame that follows a resumed _build_component: the expansion of the
\* component's own components, or none.
ContinuationSameLevel(f) ==
    IF f.emit_subcomponents
    THEN <<ComponentsFrame(f.entry, f.level, Len(out))>>
    ELSE <<>>

Continuation(f) ==
    IF f.emit_subcomponents
    THEN <<ComponentsFrame(f.entry, f.level + 1, Len(out))>>
    ELSE <<>>

\* visited.add(comp_ref)
MarkVisitedForgotten(comp_ref) == visited

MarkVisited(comp_ref) == visited \cup {comp_ref}

\* _build_component, resumed after its yield: the pair becomes visited, and
\* the component's own components follow unless it is the enclosing entry.
ComponentResume ==
    /\ Traversing /\ stack # <<>>
    /\ Top.fn = "_build_component" /\ Top.at = "yielded"
    /\ visited' = MarkVisited(Top.ref)
    /\ stack' = Pop \o Continuation(Top)
    /\ UNCHANGED <<dict, media, pc, out, rendered, todo, locals, result, hist>>

----------------------------------------------------------------------------
(* The note-build calls. *)

InlineRef(ref, capitalized) == [ref |-> ref, capitalized |-> capitalized]

\* A call starts a traversal with visited set v0.
StartTraversal(v0) ==
    /\ visited' = v0
    /\ out' = <<>>
    /\ rendered' = <<>>
    /\ result' = NoResult
    /\ hist' = [NoHist EXCEPT !.visited0 = v0]

\* entry_to_note(ref), up to the point where format_extra_field starts to
\* consume build_components(entry).
EntryToNote(ref) ==
    /\ pc = "idle"
    /\ LET r == ref_to_entry(ref)
           w == format_word_field(<<>>, r.entry)
           d == format_definition_field(r.entry)
       IN  IF r.err # ""
           THEN /\ Abort(r.err)
                /\ UNCHANGED media
           ELSE IF w.err # ""
           THEN /\ Abort(w.err)
                /\ media' = w.media
           ELSE IF d.err # ""
           THEN /\ Abort(d.err)
                /\ media' = w.media
           ELSE /\ media' = w.media
                /\ pc' = "word"
                /\ stack' = <<ComponentsFrame(r.entry, 0, 0)>>
                /\ todo' = <<>>
                /\ locals' = [NoLocals EXCEPT !.ref = r.ref, !.entry = r.entry,
                                              !.word = w.val, !.definition = d.val]
                /\ StartTraversal({})
    /\ UNCHANGED dict

\* entry_to_note, from the end of the traversal to its return.
EntryToNoteReturn ==
    /\ pc = "word" /\ stack = <<>>
    /\ LET classifier_str == ClassifierLine(locals.entry)
           components_str == RenderComponents(out)
       IN  IF classifier_str.err # ""
           THEN Abort(classifier_str.err) /\ UNCHANGED media
           ELSE IF components_str.err # ""
           THEN Abort(components_str.err) /\ UNCHANGED media
           ELSE /\ Return("WordNote",
                       [ref |-> locals.ref, word |-> locals.word,
                        definition |-> locals.definition,
                        extra |-> join_nonempty_strings(
                                      <<classifier_str.val, components_str.val>>),
                        media |-> media])
                /\ media' = <<>>
    /\ UNCHANGED dict

\* The two passes of cloze_to_note over the inline references of the text:
\* each reference resolved and replaced by its canonical form, then each
\* canonical reference resolved and replaced by its pronunciation.
ClozeResolved(sentence) ==
    [i \in 1..Len(sentence) |-> ref_to_entry(sentence[i].ref)]

ClozePronounced(sentence) ==
    [i \in 1..Len(sentence) |->
        format_pronounciation(ref_to_entry(ClozeResolved(sentence)[i].ref).entry)]

FirstError(rs) ==
    LET bad == {i \in 1..Len(rs) : rs[i].err # ""}
    IN  IF bad = {} THEN "" ELSE rs[CHOOSE i \in bad : \A j \in bad : i <= j].err

\* cloze_to_note(raw_inline_ids), up to the point where the extra field
\* starts to consume the component listings.
ClozeToNote(sentence) ==
    /\ pc = "idle"
    /\ LET resolved == ClozeResolved(sentence)
       IN  IF FirstError(resolved) # ""
           THEN Abort(FirstError(resolved))
           ELSE IF FirstError(ClozePronounced(sentence)) # ""
           THEN Abort(FirstError(ClozePronounced(sentence)))
           ELSE /\ pc' = "cloze"
                /\ stack' = <<>>
                /\ todo' = [i \in 1..Len(sentence) |->
                               [ref |-> resolved[i].ref, entry |-> resolved[i].entry]]
                /\ locals' = [NoLocals EXCEPT
                       !.inline_ids = [i \in 1..Len(sentence) |->
                           InlineRef(resolved[i].ref, sentence[i].capitalized)],
                       !.cloze = [i \in 1..Len(sentence) |->
                           IF sentence[i].capitalized
                           THEN capitalize(ClozePronounced(sentence)[i].val)
                           ELSE ClozePronounced(sentence)[i].val]]
                /\ StartTraversal({})
    /\ UNCHANGED <<dict, media>>

\* format_cloze_extra_field: the next entry's build_component is started.
ClozeNextEntry ==
    /\ pc = "cloze" /\ stack = <<>> /\ todo # <<>>
    /\ stack' = <<ComponentFrame(Head(todo).ref, Head(todo).entry, 0, TRUE, FALSE, 0, 0)>>
    /\ todo' = Tail(todo)
    /\ UNCHANGED <<dict, media, pc, visited, out, rendered, locals, result, hist>>

\* cloze_to_note, from the end of the last listing to its return.
ClozeToNoteReturn ==
    /\ pc = "cloze" /\ stack = <<>> /\ todo = <<>>
    /\ Return("ClozeNote",
           [inline_ids |-> locals.inline_ids, cloze |-> locals.cloze,
            extra |-> Join(BR, rendered), media |-> <<>>])
    /\ UNCHANGED <<dict, media>>

\* build_components(entry, visited=v0), consumed to its end by the caller.
BuildComponents(entry, v0) ==
    /\ pc = "idle"
    /\ pc' = "components"
    /\ stack' = <<ComponentsFrame(entry, 0, 0)>>
    /\ todo' = <<>>
    /\ locals' = [NoLocals EXCEPT !.entry = entry]
    /\ StartTraversal(v0)
    /\ UNCHANGED <<dict, media>>

\* build_component(ref, component, visited=v0), consumed to its end.
BuildComponent(ref, component, v0) ==
    /\ pc = "idle"
    /\ pc' = "component"
    /\ stack' = <<ComponentFrame(ref, component, 0, TRUE, FALSE, 0, 0)>>
    /\ todo' = <<>>
    /\ locals' = [NoLocals EXCEPT !.ref = ref, !.entry = component]
    /\ StartTraversal(v0)
    /\ UNCHANGED <<dict, media>>

\* The generator handed out by build_component(s) is exhausted.
GeneratorReturn ==
    /\ pc \in {"components", "component"} /\ stack = <<>>
    /\ Return("components", out)
    /\ UNCHANGED <<dict, media>>

----------------------------------------------------------------------------
(* The dictionaries and the inputs the model draws. *)

\* All tuples over S of length at most n.
RECURSIVE SeqsUpTo(_, _)
SeqsUpTo(S, n) ==
    IF n = 0 THEN {<<>>}
    ELSE LET shorter == SeqsUpTo(S, n - 1)
         IN  shorter \cup {Append(q, x) : q \in shorter, x \in S}

EntryIds == {1, 2}
\* Ids a reference may name: those of the dictionary and one it lacks.
RefIds == {1, 2, 3}

Other(e) == CHOOSE o \in EntryIds : o # e

Word(e) == IF e = 1 THEN <<"a">> ELSE <<"b", "<">>
Pron(e) == IF e = 1 THEN <<"p", " ", "q">> ELSE <<"a", "P">>
Sound == <<"s", "/", "m">>
Merged == <<"a", "b">>
Gloss(d) == IF d = 0 THEN <<"x", "&">> ELSE <<"[", "y">>

Plain(d, components) == Definition(d, Gloss(d), <<>>, None, components, None)
MergedDef(d, components) == Definition(d, Gloss(d), <<>>, Some(Merged), components, None)

\* The component lists drawn for the entry under study.
ListedRefs(e) ==
    {SELF_REFERENCE, EntryRef(Other(e), None), EntryRef(Other(e), Some(1))}

ComponentLists(e) == {None} \cup {Some(l) : l \in SeqsUpTo(ListedRefs(e), MaxComps)}

\* Entry 1, the entry under study, with one definition: every component list.
StudyDefinitions == { <<Plain(0, c)>> : c \in ComponentLists(1) }

\* Entry 1 with two definitions: every component list, under each layout of
\* an empty list, a merged definition and a stored order that is not id order.
LayoutDefinitions ==
    UNION {{ <<Plain(0, Some(<<>>)), Plain(1, c)>>,
             <<MergedDef(0, c), Plain(1, None)>>,
             <<Plain(1, None), Plain(0, c)>>,
             <<MergedDef(0, Some(<<SELF_REFERENCE>>)), Plain(1, c)>> }
           : c \in ComponentLists(1)}

\* Entry 2, its partner: the shapes that close a cycle, share a component
\* or offer a second definition.
PartnerDefinitions ==
    { <<Plain(0, None)>>,
      <<Plain(0, Some(<<EntryRef(1, None)>>))>>,
      <<Plain(0, Some(<<SELF_REFERENCE, EntryRef(1, None)>>))>>,
      <<Plain(0, None), Plain(1, Some(<<EntryRef(1, None)>>))>>,
      <<MergedDef(0, Some(<<SELF_REFERENCE, EntryRef(1, None)>>)), Plain(1, None)>>,
      <<Plain(0, Some(<<EntryRef(1, Some(1))>>))>> }

LayoutPartnerDefinitions ==
    { <<Plain(0, None)>>,
      <<Plain(0, Some(<<SELF_REFERENCE, EntryRef(1, None)>>))>>,
      <<Plain(0, Some(<<EntryRef(1, Some(1))>>))>> }

GraphEntries(d1, d2) ==
    (1 :> DictionaryEntry(1, Word(1), Some(Pron(1)), Some(Sound), d1)) @@
    (2 :> DictionaryEntry(2, Word(2), Some(Pron(2)), None, d2))

GraphDictionaries ==
    { GraphEntries(d1, d2) : d1 \in StudyDefinitions, d2 \in PartnerDefinitions }
    \cup
    { GraphEntries(d1, d2) : d1 \in LayoutDefinitions, d2 \in LayoutPartnerDefinitions }

\* Entries that differ in what the fields are composed from: categories,
\* classifiers, audio and pronunciation.
FieldDefinitions ==
    { <<Definition(0, Gloss(0), cats, None, comps, cls)>>
      : cats \in {<<>>, <<<<"Food">>, <<EnglishAlphabet>>>>},
        comps \in {None, Some(<<EntryRef(2, None)>>), Some(<<EntryRef(3, None)>>)},
        cls \in {None, Some(<<>>), Some(<<EntryRef(2, None)>>),
                 Some(<<EntryRef(2, Some(1))>>), Some(<<EntryRef(3, None)>>)} }

FieldDictionaries ==
    { (1 :> DictionaryEntry(1, Word(1), p1, s1, d1)) @@
      (2 :> DictionaryEntry(2, Word(2), p2, None, d2))
      : d1 \in FieldDefinitions, s1 \in {None, Some(Sound)},
        p1 \in {Some(Pron(1))}, p2 \in {Some(Pron(2)), None},
        d2 \in {<<Plain(0, None)>>, <<Plain(0, None), Plain(1, None)>>} }

Dictionaries == GraphDictionaries \cup FieldDictionaries

\* The references handed to entry_to_note.
NoteRefs ==
    {EntryRef(e, d) : e \in EntryIds, d \in {None, Some(0), Some(1)}}
        \cup {EntryRef(3, None)}

\* The inline references a cloze sentence is made of.
InlineRefs ==
    { InlineRef(EntryRef(1, None), FALSE), InlineRef(EntryRef(2, None), TRUE) }

Sentences == SeqsUpTo(InlineRefs, MaxSentence) \ {<<>>}

\* The starting points and the visited sets handed to build_component(s).
StartRefs == {EntryRef(1, None), EntryRef(1, Some(0)), EntryRef(2, None)}

VisitedSets == SUBSET {EntryRef(1, Some(0)), EntryRef(2, Some(0))}

----------------------------------------------------------------------------
(* The formatter in use: any sequence of calls on one NoteFormatter. *)

Init ==
    /\ dict \in Dictionaries
    /\ media = <<>>
    /\ pc = "idle"
    /\ stack = <<>>
    /\ visited = {}
    /\ out = <<>>
    /\ rendered = <<>>
    /\ todo = <<>>
    /\ locals = NoLocals
    /\ result = NoResult
    /\ hist = NoHist

CallEntryToNote == \E ref \in NoteRefs : EntryToNote(ref)

CallClozeToNote == \E sentence \in Sentences : ClozeToNote(sentence)

CallBuildComponents ==
    \E ref \in StartRefs, v0 \in VisitedSets :
        /\ ref_to_entry(ref).err = ""
        /\ BuildComponents(ref_to_entry(ref).entry, v0)

CallBuildComponent ==
    \E ref \in StartRefs, v0 \in VisitedSets :
        /\ ref_to_entry(ref).err = ""
        /\ BuildComponent(ref_to_entry(ref).ref, ref_to_entry(ref).entry, v0)

\* The steps of a call in progress.
Run ==
    \/ ExpandStart
    \/ ExpandNext
    \/ ComponentStart
    \/ ComponentResume
    \/ ClozeNextEntry
    \/ EntryToNoteReturn
    \/ ClozeToNoteReturn
    \/ GeneratorReturn

Next ==
    \/ CallEntryToNote
    \/ CallClozeToNote
    \/ CallBuildComponents
    \/ CallBuildComponent
    \/ Run

Spec == Init /\ [][Next]_vars

\* The Component Graph Builder on its own: one generator obtained from
\* build_components or build_component on a fresh formatter and consumed to
\* its end. The generator is single-threaded synchronous code: once resumed
\* it runs to its next yield or to its return.
Generate ==
    \/ ExpandStart
    \/ ExpandNext
    \/ ComponentStart
    \/ ComponentResume
    \/ GeneratorReturn

FirstGenerator ==
    /\ result = NoResult
    /\ \/ CallBuildComponents
       \/ CallBuildComponent

NextGenerator == FirstGenerator \/ Generate

GeneratorSpec == Init /\ [][NextGenerator]_vars /\ WF_vars(Generate)

----------------------------------------------------------------------------
(* The media registry on its own: use_media called any number of times
   within one note build. *)

PathChars == {"a", "/", "_"}
Paths == SeqsUpTo(PathChars, MaxPathLen)

UseMedia(path) ==
    /\ pc = "idle"
    /\ \/ Cardinality(DOMAIN media) < MaxMedia
       \/ MediaNameOf(path) \in DOMAIN media
    /\ LET u == use_media(media, path)
       IN  /\ media' = u.media
           /\ result' = [kind |-> IF u.err = "" THEN "name" ELSE "error",
                         error |-> u.err,
                         value |-> [path |-> path, name |-> u.val]]
    /\ UNCHANGED <<dict, pc, stack, visited, out, rendered, todo, locals, hist>>

InitMedia ==
    /\ dict = <<>>
    /\ media = <<>>
    /\ pc = "idle"
    /\ stack = <<>>
    /\ visited = {}
    /\ out = <<>>
    /\ rendered = <<>>
    /\ todo = <<>>
    /\ locals = NoLocals
    /\ result = NoResult
    /\ hist = NoHist

NextMedia == \E path \in Paths : UseMedia(path)

MediaSpec == InitMedia /\ [][NextMedia]_vars

----------------------------------------------------------------------------
(* The entity resolver on its own: _ref_to_entry applied to any reference. *)

\* The fetcher's dictionary after _ref_to_entry(ref): the narrowed view is
\* built on a copy, so the fetched entry keeps its definitions.
FetchedAfter(ref) == dict

ResolveRefs == {EntryRef(e, d) : e \in RefIds, d \in {None, Some(0), Some(1)}}

Resolve(ref) ==
    /\ pc = "idle"
    /\ LET r == ref_to_entry(ref)
       IN  result' = [kind |-> IF r.err = "" THEN "resolved" ELSE "error",
                      error |-> r.err,
                      value |-> [ref |-> r.ref, entry |-> r.entry]]
    /\ locals' = [NoLocals EXCEPT !.ref = ref]
    /\ dict' = FetchedAfter(ref)
    /\ UNCHANGED <<media, pc, stack, visited, out, rendered, todo, hist>>

NextResolve == \E ref \in ResolveRefs : Resolve(ref)

ResolveSpec == Init /\ [][NextResolve]_vars

----------------------------------------------------------------------------
(* Word notes of single entries, over the texts the fields are made from. *)

WordTexts == SeqsUpTo({"a", "&"}, MaxTextLen) \ {<<>>}
PronTexts == SeqsUpTo({"p", " ", "<"}, MaxTextLen) \ {<<>>}
GlossTexts == SeqsUpTo({"x", "&"}, MaxTextLen) \ {<<>>}

WordDictionaries ==
    { (1 :> DictionaryEntry(1, w, p, s,
                <<Definition(0, g, cats, None, c, None)>>))
      : w \in WordTexts,
        p \in {None} \cup {Some(t) : t \in PronTexts},
        s \in {None, Some(Sound)},
        g \in GlossTexts,
        cats \in {<<>>, <<<<EnglishAlphabet>>>>},
        c \in {None, Some(<<SELF_REFERENCE>>)} }

InitWord ==
    /\ dict \in WordDictionaries
    /\ media = <<>>
    /\ pc = "idle"
    /\ stack = <<>>
    /\ visited = {}
    /\ out = <<>>
    /\ rendered = <<>>
    /\ todo = <<>>
    /\ locals = NoLocals
    /\ result = NoResult
    /\ hist = NoHist

WordRefs == {EntryRef(1, None), EntryRef(1, Some(0))}

NextWord ==
    \/ /\ result = NoResult
       /\ \E ref \in WordRefs : EntryToNote(ref)
    \/ ExpandStart
    \/ ExpandNext
    \/ ComponentStart
    \/ ComponentResume
    \/ EntryToNoteReturn

WordSpec == InitWord /\ [][NextWord]_vars

----------------------------------------------------------------------------
(* What the claims are stated in. *)

\* The visited-set key of an emitted component.
PairOf(c) == EntryRef(c.id, Some(c.definition))

\* The running listing is complete: nothing is left to resume or to start.
Finished == Traversing /\ stack = <<>> /\ todo = <<>>

\* Stated from the dictionary alone: the positions, in stored order, of the
\* definitions of an entry that are not merged and carry a component list.
ListingPositions(entry) ==
    {k \in 1..Len(entry.definitions) :
        /\ entry.definitions[k].super_entry = None
        /\ entry.definitions[k].components # None}

\* Whether entry a's listing names entry b.
Lists(a, b) ==
    \E k \in ListingPositions(dict[a]) :
        \E i \in 1..Len(Get(dict[a].definitions[k].components)) :
            LET c == Get(dict[a].definitions[k].components)[i]
            IN  ~c.self /\ c.id = b

----------------------------------------------------------------------------
(* C1: every run of the Component Graph Builder terminates: a generator
   obtained from build_components or build_component, on any dictionary
   (cyclic and self-referential ones included), from any starting entry and
   any initial visited set, once started reaches its end. *)
Termination == (pc # "idle") ~> (pc = "idle")

\* A generator has run to its end on a dictionary whose two entries list
\* each other, and has listed both.
TerminationWitness ==
    /\ pc \in {"components", "component"} /\ Finished
    /\ Lists(1, 2) /\ Lists(2, 1)
    /\ \E i, j \in 1..Len(out) : out[i].id = 1 /\ out[j].id = 2

----------------------------------------------------------------------------
(* C2: no (entry id, definition id) pair occurs twice in the components one
   traversal emits, across all the top-level entries of a cloze sentence,
   and no pair of the initial visited set is emitted at all. *)
NoDuplicateComponents ==
    /\ \A i, j \in 1..Len(out) : i # j => PairOf(out[i]) # PairOf(out[j])
    /\ \A i \in 1..Len(out) : PairOf(out[i]) \notin hist.visited0

\* A cloze listing is complete in which the second referenced word had
\* already been listed, indented, as a component of the first.
NoDuplicateWitness ==
    /\ pc = "cloze" /\ Finished
    /\ Len(locals.inline_ids) = 2
    /\ locals.inline_ids[1].ref = EntryRef(1, None)
    /\ locals.inline_ids[2].ref = EntryRef(2, None)
    /\ \E k \in 1..Len(out) : out[k].id = 2 /\ out[k].level > 0

----------------------------------------------------------------------------
(* C3: self-references. *)

\* The components emitted for the j-th self-reference the traversal reached.
EmittedForSelf(j) == {k \in 1..Len(out) : hist.meta[k].self = j}

\* The pair a self-reference inside entry e stands for.
SelfPair(e) == EntryRef(e, Some(dict[e].definitions[1].id))

\* Whether that pair was still unvisited when the j-th self-reference was
\* reached: it was neither handed in as visited nor emitted before.
SelfWasFresh(j) ==
    /\ SelfPair(hist.selfs[j].encl) \notin hist.visited0
    /\ \A k \in 1..hist.selfs[j].at : PairOf(out[k]) # SelfPair(hist.selfs[j].encl)

(* C3 as claimed: whenever the definition chosen for expansion lists a
   self-reference, the listing of a word note or of a cloze note holds
   exactly one WordComponent for it (id = the enclosing entry's id,
   definition = that entry's first definition), and that component's own
   components are never expanded. *)
SelfReferenceEmittedOnce ==
    pc \in {"word", "cloze"} =>
        \A j \in 1..Len(hist.selfs) :
            /\ Cardinality(EmittedForSelf(j)) = 1
            /\ \A k \in EmittedForSelf(j) :
                   /\ PairOf(out[k]) = SelfPair(hist.selfs[j].encl)
                   /\ ~hist.meta[k].expand

(* C3 as amended: a self-reference emits at most one WordComponent. When the
   pair (enclosing entry's id, its first definition) is still unvisited as
   the self-reference is reached, exactly one is emitted for it, with that
   id and definition, at the level of the enclosing entry's components, and
   it is not expanded: the next component, if any, is no deeper. When the
   pair is already visited (as it is for the top-level entry of a cloze
   listing referenced by its first definition, which build_component has
   just emitted and expands), nothing is emitted for the self-reference. *)
SelfReferenceAtMostOnce ==
    \A j \in 1..Len(hist.selfs) :
        IF SelfWasFresh(j)
        THEN /\ EmittedForSelf(j) = {hist.selfs[j].at + 1}
             /\ LET k == hist.selfs[j].at + 1
                IN  /\ PairOf(out[k]) = SelfPair(hist.selfs[j].encl)
                    /\ out[k].level = hist.selfs[j].level
                    /\ ~hist.meta[k].expand
                    /\ k < Len(out) => out[k + 1].level <= out[k].level
        ELSE EmittedForSelf(j) = {}

\* A finished cloze listing whose top-level entry lists a self-reference:
\* the entry was emitted first and expanded, its self-reference emitted
\* nothing, and another of its components followed.
SelfReferenceWitness ==
    /\ pc = "cloze" /\ Finished /\ Len(out) >= 2
    /\ \E j \in 1..Len(hist.selfs) :
          /\ ~SelfWasFresh(j)
          /\ hist.selfs[j].level = 1
          /\ EmittedForSelf(j) = {}
          /\ PairOf(out[1]) = SelfPair(hist.selfs[j].encl)
          /\ hist.meta[1].expand

----------------------------------------------------------------------------
(* C9: the definition that supplies an entry's components. *)

\* The _build_components frames whose component list has been chosen.
ChosenFrames ==
    {n \in 1..Len(stack) : stack[n].fn = "_build_components" /\ stack[n].at = "loop"}

\* The _build_components frames that are about to choose.
ChoosingNow ==
    stack # <<>> /\ Top.fn = "_build_components" /\ Top.at = "start"

(* C9 as claimed: the list used is that of the first definition, in stored
   order, that is not merged and has a non-empty component list; an empty
   list is skipped in favour of a later definition with components. *)
FirstNonEmptyListChosen ==
    \A n \in ChosenFrames :
        \E k \in ListingPositions(stack[n].entry) :
            /\ Get(stack[n].entry.definitions[k].components) # <<>>
            /\ stack[n].comps = Get(stack[n].entry.definitions[k].components)
            /\ \A m \in ListingPositions(stack[n].entry) :
                   m < k => Get(stack[n].entry.definitions[m].components) = <<>>

(* C9 as amended: the list used is that of the first definition, in stored
   order, that is not merged and has a component list, empty or not; an
   empty list is not skipped, so an entry whose first such definition lists
   nothing emits nothing even when a later definition has components. The
   generator returns without a list only when no unmerged definition has a
   component list. *)
FirstPresentListChosen ==
    /\ [](\A n \in ChosenFrames :
            \E k \in ListingPositions(stack[n].entry) :
                /\ stack[n].comps = Get(stack[n].entry.definitions[k].components)
                /\ \A m \in ListingPositions(stack[n].entry) : k <= m)
    /\ [][ChoosingNow =>
            IF ListingPositions(Top.entry) = {}
            THEN stack' = Pop
            ELSE Len(stack') = Len(stack) /\ stack'[Len(stack)].at = "loop"]_vars

\* An entry whose first listing definition has an empty list and whose
\* second has components was expanded, and the listing ended empty.
FirstPresentWitness ==
    /\ pc = "word" /\ Finished /\ out = <<>>
    /\ Len(locals.entry.definitions) = 2
    /\ ListingPositions(locals.entry) = {1, 2}
    /\ Get(locals.entry.definitions[1].components) = <<>>
    /\ Get(locals.entry.definitions[2].components) # <<>>

----------------------------------------------------------------------------
(* C10: the listing is a pre-order listing with depth as level. *)

\* The reference that the entry expanded into out[k] lists at out[k]'s
\* position, read from the dictionary entry the parent was emitted with.
ListedAt(parent, pos) ==
    LET first == CHOOSE n \in ListingPositions(parent) :
                     \A m \in ListingPositions(parent) : n <= m
    IN  Get(parent.definitions[first].components)[pos]

\* out[k] is what its parent lists at its position.
IsListedComponent(parent, k) ==
    /\ ListingPositions(parent) # {}
    /\ hist.meta[k].pos \in 1..Len(Get(parent.definitions[
           CHOOSE n \in ListingPositions(parent) :
               \A m \in ListingPositions(parent) : n <= m].components))
    /\ LET listed == ListedAt(parent, hist.meta[k].pos)
       IN  IF listed.self
           THEN out[k].id = parent.id
           ELSE /\ out[k].id = listed.id
                /\ listed.definition # None => out[k].definition = Get(listed.definition)

\* The pairs of the first n emitted components.
EmittedPairs(n) == {PairOf(out[k]) : k \in 1..n}

\* The last emitted component has been yielded and not yet resumed.
LastIsPending ==
    stack # <<>> /\ Top.fn = "_build_component" /\ Top.at = "yielded"

(* C10: the first emitted component has level 0 and each later one is at
   most one level below its predecessor; a component emitted while entry p
   is expanded has p's level plus one, is one that p lists, and comes after
   p with only components of p's subtree in between; the components of one
   entry appear in their listed order; and the visited set is the initial
   set plus the pairs of the emitted components, the last of them being
   added only when the generator is resumed after its yield and before the
   expansion of its own components starts. *)
PreOrderListing ==
    /\ out # <<>> => out[1].level = 0
    /\ \A k \in 2..Len(out) : out[k].level <= out[k - 1].level + 1
    /\ \A k \in 1..Len(out) :
          LET p == hist.meta[k].parent
          IN  IF p = 0
              THEN /\ out[k].level = 0
                   /\ pc \in {"word", "components"} => IsListedComponent(locals.entry, k)
              ELSE /\ p < k
                   /\ hist.meta[p].expand
                   /\ out[k].level = out[p].level + 1
                   /\ \A m \in (p + 1)..k : out[m].level > out[p].level
                   /\ IsListedComponent(out[p].entry, k)
    /\ \A k, m \in 1..Len(out) :
          (k < m /\ hist.meta[k].parent = hist.meta[m].parent /\ hist.meta[k].pos > 0)
              => hist.meta[k].pos < hist.meta[m].pos
    /\ visited = hist.visited0 \cup
                 EmittedPairs(IF LastIsPending THEN Len(out) - 1 ELSE Len(out))
    /\ LastIsPending => PairOf(out[Len(out)]) \notin visited
    /\ \A n \in 1..Len(stack) :
          (stack[n].fn = "_build_components" /\ stack[n].owner > 0)
              => PairOf(out[stack[n].owner]) \in visited

\* A finished listing in which a component was followed by its own
\* sub-component and only then by its next sibling.
PreOrderWitness ==
    /\ Finished
    /\ \E k \in 3..Len(out) :
          /\ out[k - 2].level = 0
          /\ out[k - 1].level = 1 /\ hist.meta[k - 1].parent = k - 2
          /\ out[k].level = 0
          /\ PairOf(out[k]) \in visited

----------------------------------------------------------------------------
(* C4: the Media Registry between calls. *)

(* C4 as claimed: whenever no note-build call is in progress the registry
   map is empty, whether the last call returned a note or aborted. *)
MediaEmptyWhenIdle == pc = "idle" => media = <<>>

----------------------------------------------------------------------------
(* C8: the error kind of a missing definition id. *)

(* C8 as claimed: a call that aborts over a definition id that does not
   exist aborts with EntryNotFound; no other error kind is produced for a
   missing definition id. *)
MissingDefinitionIsNotFound ==
    (pc = "idle" /\ result.kind = "error") => result.error # KeyErrorDefinition

----------------------------------------------------------------------------
(* C5: the media registry stays consistent. *)

\* name is the sanitization of path, stated character by character.
Sanitized(path, name) ==
    /\ Len(name) = Len(path)
    /\ \A i \in 1..Len(path) :
           name[i] = IF path[i] = "/" THEN "_" ELSE path[i]

\* The locator and the name of the use_media call that has just returned.
Registered == result.value

(* C5: every name of the registry is the sanitization of the locator it
   maps to, and no name is ever mapped to another locator or dropped;
   registering a registered locator returns its name and leaves the map as
   it is; registering a different locator with the name of a registered one
   fails with the assertion error and leaves the map as it is; any other
   locator is added under its sanitized name, which is returned. *)
MediaConsistent ==
    /\ [](\A name \in DOMAIN media : Sanitized(media[name], name))
    /\ [][/\ \A name \in DOMAIN media :
                 name \in DOMAIN media' /\ media'[name] = media[name]
          /\ LET path == Registered'.path
                 same == {name \in DOMAIN media : media[name] = path}
                 clash == {name \in DOMAIN media :
                              Sanitized(path, name) /\ media[name] # path}
             IN  IF same # {}
                 THEN /\ result'.kind = "name"
                      /\ Registered'.name \in same
                      /\ media' = media
                 ELSE IF clash # {}
                 THEN /\ result'.kind = "error"
                      /\ result'.error = AssertionError
                      /\ media' = media
                 ELSE /\ result'.kind = "name"
                      /\ Sanitized(path, Registered'.name)
                      /\ DOMAIN media' = DOMAIN media \cup {Registered'.name}
                      /\ media'[Registered'.name] = path]_vars

\* With the registry full, a locator was refused because its name is taken
\* by a registered locator that differs from it in a sanitized character.
MediaCollisionWitness ==
    /\ result.kind = "error" /\ result.error = AssertionError
    /\ Cardinality(DOMAIN media) = MaxMedia
    /\ \E name \in DOMAIN media :
          /\ Sanitized(Registered.path, name)
          /\ media[name] # Registered.path
          /\ \E i \in 1..Len(name) : name[i] = "_" /\ media[name][i] = "/"

----------------------------------------------------------------------------
(* C6: the dispatch of the entity resolver. *)

\* The reference the last _ref_to_entry call was given, and what it gave.
Asked == locals.ref
Resolved == result.value

\* The stored definitions of entry id with definition id d.
StoredWith(id, d) == {k \in 1..Len(dict[id].definitions) : dict[id].definitions[k].id = d}

(* C6: _ref_to_entry on an existing entry returns the fetched entry itself
   for a reference without definition; fails with EntryNotFound for a
   definition id the entry does not have; for a plain definition d returns
   the entry with d as its only definition; for a merged definition d
   returns get_super_entry(entry, d), which is not the narrowed view. A
   successful call returns the reference (entry.id, the asked definition),
   and no call changes the fetched entries. *)
ResolverDispatch ==
    /\ [](result.kind \in {"resolved", "error"} /\ Asked.id \in DOMAIN dict =>
            LET entry == dict[Asked.id]
            IN  IF Asked.definition = None
                THEN /\ result.kind = "resolved"
                     /\ Resolved.entry = entry
                     /\ Resolved.ref = EntryRef(entry.id, None)
                ELSE LET d == Asked.definition[1]
                     IN  IF StoredWith(Asked.id, d) = {}
                         THEN result.kind = "error" /\ result.error = EntryNotFound
                         ELSE LET defn == entry.definitions[CHOOSE k \in StoredWith(Asked.id, d) : TRUE]
                              IN  /\ result.kind = "resolved"
                                  /\ Resolved.ref = EntryRef(entry.id, <<d>>)
                                  /\ IF defn.super_entry = None
                                     THEN /\ Resolved.entry.definitions = <<defn>>
                                          /\ [Resolved.entry EXCEPT !.definitions = entry.definitions] = entry
                                     ELSE /\ Resolved.entry = get_super_entry(entry, d)
                                          /\ Resolved.entry # [entry EXCEPT !.definitions = <<defn>>])
    /\ [][dict' = dict]_vars

\* A merged definition of an entry with two definitions was resolved.
ResolverWitness ==
    /\ result.kind = "resolved"
    /\ Asked.definition # None
    /\ Len(dict[Asked.id].definitions) = 2
    /\ \E k \in StoredWith(Asked.id, Asked.definition[1]) :
           dict[Asked.id].definitions[k].super_entry # None

----------------------------------------------------------------------------
(* C7: the word note of a simple entry. *)

\* The entry of the dictionary is simple: one plain, suitable definition
\* without components or classifiers, and no audio locator.
SimpleEntry ==
    /\ dict[1].sound_url = None
    /\ Len(dict[1].definitions) = 1
    /\ dict[1].definitions[1].super_entry = None
    /\ dict[1].definitions[1].components = None
    /\ dict[1].definitions[1].classifiers = None

\* The HTML escape of one character, and of a text.
EscapedChar(c) ==
    CASE c = "&" -> <<"&", "a", "m", "p", ";">>
      [] c = "<" -> <<"&", "l", "t", ";">>
      [] c = ">" -> <<"&", "g", "t", ";">>
      [] c = "\"" -> <<"&", "q", "u", "o", "t", ";">>
      [] c = "'" -> <<"&", "#", "x", "2", "7", ";">>
      [] OTHER -> <<c>>

RECURSIVE Escaped(_)
Escaped(text) ==
    IF text = <<>> THEN <<>> ELSE EscapedChar(Head(text)) \o Escaped(Tail(text))

\* A pronunciation with its spaces turned into dashes.
Dashed(text) == [i \in 1..Len(text) |-> IF text[i] = " " THEN "-" ELSE text[i]]

\* The note entry_to_note has returned.
Note == result.value

(* C7 as claimed: the word note of a simple entry has the ruby span
   '<ruby>' + text + '<rt>' + pronunciation + '</rt></ruby>' of
   format_inline_word as its word field, the definition text as its
   definition field, an empty extra field and an empty media map. *)
SimpleWordNoteIsRuby ==
    (result.kind = "WordNote" /\ SimpleEntry) =>
        /\ Note.word = <<"<", "r", "u", "b", "y", ">">> \o Escaped(dict[1].entry)
                       \o <<"<", "r", "t", ">">>
                       \o Escaped(Dashed(dict[1].pronounciations[1]))
                       \o <<"<", "/", "r", "t", ">", "<", "/", "r", "u", "b", "y", ">">>
        /\ Note.definition = dict[1].definitions[1].definition
        /\ Note.extra = <<>>
        /\ Note.media = <<>>

(* C7 as amended: the word note of a simple entry has as its word field the
   HTML-escaped text followed by the pronunciation in square brackets,
   text + '[' + pronunciation + ']' (the pronunciation HTML-escaped, its
   spaces turned into dashes), not the ruby span of format_inline_word; its
   definition field is the HTML-escaped definition text, its extra field is
   empty and its media map is empty. *)
SimpleWordNoteIsBracketed ==
    (result.kind = "WordNote" /\ SimpleEntry) =>
        /\ Note.word = Escaped(dict[1].entry) \o <<"[">>
                       \o Escaped(Dashed(dict[1].pronounciations[1])) \o <<"]">>
        /\ Note.definition = Escaped(dict[1].definitions[1].definition)
        /\ Note.extra = <<>>
        /\ Note.media = <<>>
        /\ Note.ref.id = 1

\* The note of a simple entry whose text and pronunciation need escaping
\* and dashes was returned.
SimpleWordNoteWitness ==
    /\ result.kind = "WordNote" /\ SimpleEntry
    /\ dict[1].entry = <<"a", "&">>
    /\ dict[1].pronounciations = <<<<"p", " ">>>>
    /\ Note.word = <<"a", "&", "a", "m", "p", ";", "[", "p", "-", "]">>

====
